---- MODULE Spec2Model ----
(***************************************************************************)
(* A model of scripted_layout_v7.py: the script that builds the electrode  *)
(* board (floor plan, three reservoirs), crenellates a copy of it, hands   *)
(* the copy to the footprint writer and exports the layout description     *)
(* through CompactJSONEncoder.                                             *)
(*                                                                         *)
(* Lengths are integers in micrometres (the script's millimetres * 1000);  *)
(* every length the script computes is a multiple of 0.25 mm, so the       *)
(* integer arithmetic is the script's floating point arithmetic exactly.   *)
(* Texts are sequences of one-character strings.                           *)
(*                                                                         *)
(* The dmfwizard library (BoardDesign, Grid, Constructor, the crenellation *)
(* functions, the board reducer) is imported by the script and is not part *)
(* of the source; the definitions that stand for it follow spec.md.        *)
(***************************************************************************)
EXTENDS Integers, Sequences, FiniteSets, TLC

VARIABLES
    pc,                 \* position of the script
    i,                  \* index of the for loop being run
    next_refdes,        \* Constructor: next reference designator
    heap,               \* electrode objects, by address (1..Len(heap))
    board,              \* the BoardDesign `board`
    crenellated_board,  \* the BoardDesign `crenellated_board`
    heap_at_copy,       \* history: heap when board.copy() returned
    electrodes,         \* result of reduce_board_to_electrodes
    calls,              \* history: library calls made so far, in order
    saved,              \* what save_board received
    net_table,          \* result of extract_electrode_nets
    pin_table,          \* dict refdes text -> pin
    printed,            \* net names reported by the pin-table build
    rows,               \* list objects made by create_grid_dict, by address
    grid_dicts,         \* list built at line 226
    periphs,            \* list built at line 227
    layout,             \* dict built at line 228
    file,               \* what was written to electrode_board_layout.json
    o,                  \* CompactJSONEncoder: the value handed to encode
    indentation_level,  \* CompactJSONEncoder.indentation_level
    output              \* texts returned by the encode calls so far

vars == <<pc, i, next_refdes, heap, board, crenellated_board, heap_at_copy,
          electrodes, calls, saved, net_table, pin_table, printed, rows,
          grid_dicts, periphs, layout, file, o, indentation_level, output>>

scriptVars == <<pc, i, next_refdes, heap, board, crenellated_board,
                heap_at_copy, electrodes, calls, saved, net_table, pin_table,
                printed, rows, grid_dicts, periphs, layout, file>>

encoderVars == <<o, indentation_level, output>>

----------------------------------------------------------------------------
(* Constants of the script                                                 *)

GRID_PITCH == 2500
MARGIN_PER_MILLE == 150
NUM_DIGITS == 5
THETA == 30
CLEARANCE == 110
BOARD_ORIGIN == <<162500, 62250>>
GLASS_HEIGHT == 50000
RESERVOIR_HEIGHT == 12500
RESERVOIR_OVERHANG == 1000
RESERVOIR_X_POSITIONS == <<5, 10, 15>>
RESERVOIR_Y_POSITION == 11
GRID_WIDTH == 21
GRID_HEIGHT == 18
GLASS_WIDTH == 75000

GRID_ORIGIN ==
    << GLASS_WIDTH \div 2 - (GRID_WIDTH * GRID_PITCH) \div 2,
       GLASS_HEIGHT - RESERVOIR_HEIGHT
         - (RESERVOIR_Y_POSITION + 1) * GRID_PITCH + RESERVOIR_OVERHANG >>

\* MARGIN*GRID_PITCH, the margin handed to the crenellation functions
CrenMargin == (MARGIN_PER_MILLE * GRID_PITCH) \div 1000

\* mutation of grid_design: a floor plan with a line one character too wide
grid_design_wide == << [x \in 1..(GRID_WIDTH + 1) |-> "X"] >>

grid_design ==
    << <<" ","X"," "," ","X"," "," ","X"," "," ","X"," "," ","X"," "," ","X"," "," ","X">>,
       <<" ","X"," "," ","X"," "," ","X"," "," ","X"," "," ","X"," "," ","X"," "," ","X">>,
       <<" ","X","X","X","X","X","X","X","X","X","X","X","X","X","X","X","X","X","X","X">>,
       <<" ","X"," "," ","X"," "," ","X"," "," ","X"," "," ","X"," "," ","X"," "," ","X">>,
       <<" ","X"," "," ","X"," "," ","X"," "," ","X"," "," ","X"," "," ","X"," "," ","X">>,
       <<" "," "," "," "," "," "," "," "," "," ","X">>,
       <<" "," "," "," "," "," "," "," "," "," ","X">>,
       <<" ","X"," "," ","X"," "," ","X"," "," ","X"," "," ","X"," "," ","X"," "," ","X">>,
       <<" ","X"," "," ","X"," "," ","X"," "," ","X"," "," ","X"," "," ","X"," "," ","X">>,
       <<"X","X","X","X","X","X","X","X","X","X","X","X","X","X","X","X","X","X","X","X","X">>,
       <<"X"," "," "," "," ","X"," "," "," "," ","X"," "," "," "," ","X"," "," "," "," ","X">>,
       <<"X"," "," "," "," ","X"," "," "," "," ","X"," "," "," "," ","X"," "," "," "," ","X">>,
       <<"X"," "," "," "," "," "," "," "," "," "," "," "," "," "," "," "," "," "," "," ","X">>,
       <<"X"," "," "," "," "," "," "," "," "," "," "," "," "," "," "," "," "," "," "," ","X">>,
       <<"X"," "," "," "," "," "," "," "," "," "," "," "," "," "," "," "," "," "," "," ","X">>,
       <<"X"," "," "," "," "," "," "," "," "," "," "," "," "," "," "," "," "," "," "," ","X">>,
       <<"X"," "," "," "," "," "," "," "," "," "," "," "," "," "," "," "," "," "," "," ","X">>,
       <<"X"," "," "," "," "," "," "," "," "," "," "," "," "," "," "," "," "," "," "," ","X">> >>

----------------------------------------------------------------------------
(* Bounds of the model                                                     *)

\* electrodes of the reservoir template read by load_peripheral
NumTemplateElectrodes == 2

----------------------------------------------------------------------------
(* Small helpers                                                           *)

Iota(n) == [k \in 1..n |-> k]

Reverse(s) == [k \in 1..Len(s) |-> s[Len(s) + 1 - k]]

PtAdd(p, q) == <<p[1] + q[1], p[2] + q[2]>>

PtSub(p, q) == <<p[1] - q[1], p[2] - q[2]>>

Abs(n) == IF n < 0 THEN -n ELSE n

Sign(n) == IF n < 0 THEN -1 ELSE IF n > 0 THEN 1 ELSE 0

Translate(points, by) == [k \in 1..Len(points) |-> PtAdd(points[k], by)]

RECURSIVE FlattenRange(_, _, _)
FlattenRange(ss, lo, hi) ==
    IF lo > hi THEN <<>>
    ELSE IF lo = hi THEN ss[lo]
    ELSE LET mid == (lo + hi) \div 2
         IN  FlattenRange(ss, lo, mid) \o FlattenRange(ss, mid + 1, hi)

\* the concatenation of a sequence of sequences
Flatten(ss) == FlattenRange(ss, 1, Len(ss))

\* np.deg2rad and np.rad2deg, in microradians and degrees
np_deg2rad(d) == (d * 3141593) \div 180

np_rad2deg(r) == (r * 180) \div 3141593

\* rotation about the local origin; the script only ever rotates by 0
Rotate(p, r) == IF r = 0 THEN p ELSE <<-p[2], p[1]>>

----------------------------------------------------------------------------
(* dmfwizard.types: Electrode, Grid, Peripheral, BoardDesign               *)

Electrode(refdes, points, origin) ==
    [refdes |-> refdes, points |-> points, origin |-> origin]

Grid(origin, size, pitch) ==
    [origin |-> origin, size |-> size, pitch |-> pitch, electrodes |-> <<>>]

GridWidth(g) == g.size[1]

GridHeight(g) == g.size[2]

BoardDesign == [grids |-> <<>>, peripherals |-> <<>>]

\* grid.electrodes[pos]: the address of the electrode at pos, 0 when the
\* cell is empty (the dict lookup would raise KeyError)
GridElectrode(g, pos) ==
    IF \E k \in 1..Len(g.electrodes) : g.electrodes[k].pos = pos
    THEN g.electrodes[CHOOSE k \in 1..Len(g.electrodes) :
                          g.electrodes[k].pos = pos].electrode
    ELSE 0

\* periph.electrode(name): the address of the electrode with that id, 0
\* when there is none
PeriphElectrode(p, name) ==
    IF \E k \in 1..Len(p.electrodes) : p.electrodes[k].id = name
    THEN p.electrodes[CHOOSE k \in 1..Len(p.electrodes) :
                          p.electrodes[k].id = name].electrode
    ELSE 0

\* where the local frame of a grid electrode / a peripheral electrode lies
\* on the board
GridFrame(g, e) == PtAdd(g.origin, e.origin)

PeriphFrame(p, e) == PtAdd(p.origin, Rotate(e.origin, p.rotation))

PeriphGlobalOrigin(p) == p.origin

\* BoardDesign.copy(): a deep copy.  Every electrode of the board gets a
\* new object at a fresh address; the copy refers to the new objects only.
CopyShift(h) == Len(h)

BoardCopy(b, h) ==
    [grids |-> [g \in 1..Len(b.grids) |->
                  [b.grids[g] EXCEPT !.electrodes =
                     [k \in 1..Len(b.grids[g].electrodes) |->
                        [b.grids[g].electrodes[k] EXCEPT
                           !.electrode = @ + CopyShift(h)]]]],
     peripherals |-> [p \in 1..Len(b.peripherals) |->
                  [b.peripherals[p] EXCEPT !.electrodes =
                     [k \in 1..Len(b.peripherals[p].electrodes) |->
                        [b.peripherals[p].electrodes[k] EXCEPT
                           !.electrode = @ + CopyShift(h)]]]]]

HeapCopy(h) == h \o h

----------------------------------------------------------------------------
(* dmfwizard.construct: Constructor.fill_ascii, Constructor.add_peripheral *)

SquarePoints(pitch) == << <<0, 0>>, <<pitch, 0>>, <<pitch, pitch>>, <<0, pitch>> >>

\* the occupied cells of one line of the floor plan, left to right
RowCells(line, y) ==
    LET xs == SelectSeq(Iota(Len(line)), LAMBDA x : line[x] = "X")
    IN  [k \in 1..Len(xs) |-> <<xs[k] - 1, y>>]

\* the occupied cells of the floor plan, line by line
FillCells(text) == Flatten([y \in 1..Len(text) |-> RowCells(text[y], y - 1)])

\* size mismatch or invalid character: the configuration error of fill_ascii
FloorPlanError(g, text) ==
    \/ Len(text) > GridHeight(g)
    \/ \E y \in 1..Len(text) :
          \/ Len(text[y]) > GridWidth(g)
          \/ \E x \in 1..Len(text[y]) : text[y][x] \notin {"X", " "}

\* the electrode objects fill_ascii creates, numbered from `first`
FillObjects(g, text, first) ==
    LET cells == FillCells(text)
    IN  [k \in 1..Len(cells) |->
           Electrode(first + k - 1, SquarePoints(g.pitch),
                     <<cells[k][1] * g.pitch, cells[k][2] * g.pitch>>)]

FillEntries(text, base) ==
    LET cells == FillCells(text)
    IN  [k \in 1..Len(cells) |-> [pos |-> cells[k], electrode |-> base + k]]

\* load_peripheral('peripherals/four_tier_reservoir.json'): a column of
\* pitch-sized electrodes "A", "B", ... below the peripheral's origin, the
\* upper edge of "A" centred on the origin
TemplateNames == <<"A", "B", "C", "D", "E", "F">>

load_peripheral ==
    [peripheral_class |-> "reservoir",
     peripheral_type  |-> "four_tier_reservoir",
     electrodes |-> [k \in 1..NumTemplateElectrodes |->
        [id |-> TemplateNames[k],
         points |-> << <<-(GRID_PITCH \div 2), 0>>, <<GRID_PITCH \div 2, 0>>,
                       <<GRID_PITCH \div 2, GRID_PITCH>>,
                       <<-(GRID_PITCH \div 2), GRID_PITCH>> >>,
         origin |-> <<0, (k - 1) * GRID_PITCH>>]]]

PeriphObjects(template, first) ==
    [k \in 1..Len(template.electrodes) |->
       Electrode(first + k - 1, template.electrodes[k].points,
                 template.electrodes[k].origin)]

NewPeripheral(b, template, origin, rotation, base) ==
    [peripheral_class |-> template.peripheral_class,
     peripheral_type  |-> template.peripheral_type,
     id |-> Len(b.peripherals),
     origin |-> origin,
     rotation |-> rotation,
     electrodes |-> [k \in 1..Len(template.electrodes) |->
                       [id |-> template.electrodes[k].id,
                        electrode |-> base + k]]]

----------------------------------------------------------------------------
(* dmfwizard.crenellation: crenellate_electrodes, crenellate_grid          *)

Next1(k, n) == IF k = n THEN 1 ELSE k + 1

\* the facing edges of two polygons given in board coordinates: edge ea of
\* A and edge eb of B join the same two points, in opposite directions
FacingEdges(A, B) ==
    {ed \in (1..Len(A)) \X (1..Len(B)) :
        /\ A[ed[1]] = B[Next1(ed[2], Len(B))]
        /\ A[Next1(ed[1], Len(A))] = B[ed[2]]}

TanPerMille(theta) == IF theta = 30 THEN 577 ELSE IF theta = 45 THEN 1000 ELSE 0

\* the finger vertices that replace the straight edge from a to b: the two
\* ends of the margins and, between them, one apex per finger, alternately
\* out of and into the electrode
Fingers(a, b, num_digits, theta, margin) ==
    LET d == PtSub(b, a)
        len == Abs(d[1]) + Abs(d[2])
        u == <<Sign(d[1]), Sign(d[2])>>
        nrm == <<u[2], -u[1]>>
        usable == len - 2 * margin
        w == IF num_digits > 0 THEN usable \div num_digits ELSE 0
        depth == (w * TanPerMille(theta)) \div 2000
        at(along, out) == <<a[1] + along * u[1] + out * nrm[1],
                            a[2] + along * u[2] + out * nrm[2]>>
    IN  IF (d[1] # 0 /\ d[2] # 0) \/ usable <= 0 \/ num_digits <= 0
        THEN <<>>
        ELSE <<at(margin, 0)>>
             \o [k \in 1..num_digits |->
                   at(margin + ((2 * k - 1) * w) \div 2,
                      IF k % 2 = 1 THEN depth ELSE -depth)]
             \o <<at(len - margin, 0)>>

Splice(points, k, mid) ==
    SubSeq(points, 1, k) \o mid \o SubSeq(points, k + 1, Len(points))

\* the polygon `points` (local frame at f) after its edge facing the polygon
\* `other` (local frame at fo) is replaced by fingers; asA tells whether
\* `points` is the first electrode of the pair (whose edge gives the
\* direction of the fingers) or the second (which takes the same vertices
\* in the opposite direction).  No facing edge: the polygon is left as is.
CrenellatedSide(points, f, other, fo, asA, num_digits, theta, margin) ==
    LET E == Translate(points, f)
        N == Translate(other, fo)
        facing == IF asA THEN FacingEdges(E, N) ELSE FacingEdges(N, E)
    IN  IF facing = {}
        THEN points
        ELSE LET ed == CHOOSE e \in facing : TRUE
                 A == IF asA THEN E ELSE N
                 mid == Fingers(A[ed[1]], A[Next1(ed[1], Len(A))],
                                num_digits, theta, margin)
             IN  IF asA
                 THEN Splice(points, ed[1], Translate(mid, <<-f[1], -f[2]>>))
                 ELSE Splice(points, ed[2],
                             Translate(Reverse(mid), <<-f[1], -f[2]>>))

\* crenellate_electrodes on the electrodes at addresses a and b, whose
\* local frames lie at fa and fb: both polygons are edited in place
crenellate_electrodes(h, a, fa, b, fb, num_digits, theta, margin) ==
    [h EXCEPT
       ![a].points = CrenellatedSide(h[a].points, fa, h[b].points, fb, TRUE,
                                     num_digits, theta, margin),
       ![b].points = CrenellatedSide(h[b].points, fb, h[a].points, fa, FALSE,
                                     num_digits, theta, margin)]

\* crenellate_grid: crenellate_electrodes on every pair of occupied cells
\* sharing a cell boundary (a cell with its right and its lower neighbour).
\* A pair edits one edge of each of its two polygons and no two pairs edit
\* the same edge, so each polygon is the result of its own (at most four)
\* pairs, whatever the order of the pairs.
crenellate_grid(h, g, num_digits, theta, margin) ==
    LET side(points, e, n, asA) ==
            IF n = 0 THEN points
            ELSE CrenellatedSide(points, GridFrame(g, h[e]), h[n].points,
                                 GridFrame(g, h[n]), asA,
                                 num_digits, theta, margin)
        edited(k) ==
            LET e == g.electrodes[k].electrode
                pos == g.electrodes[k].pos
                p1 == side(h[e].points, e,
                           GridElectrode(g, PtAdd(pos, <<1, 0>>)), TRUE)
                p2 == side(p1, e, GridElectrode(g, PtAdd(pos, <<0, 1>>)), TRUE)
                p3 == side(p2, e, GridElectrode(g, PtAdd(pos, <<-1, 0>>)), FALSE)
            IN  side(p3, e, GridElectrode(g, PtAdd(pos, <<0, -1>>)), FALSE)
        entryOf(a) == {k \in 1..Len(g.electrodes) : g.electrodes[k].electrode = a}
    IN  [a \in 1..Len(h) |->
           IF entryOf(a) = {} THEN h[a]
           ELSE [h[a] EXCEPT !.points = edited(CHOOSE k \in entryOf(a) : TRUE)]]

----------------------------------------------------------------------------
(* dmfwizard.construct: reduce_board_to_electrodes                         *)

reduce_board_to_electrodes(b, h) ==
    Flatten([g \in 1..Len(b.grids) |->
               [k \in 1..Len(b.grids[g].electrodes) |->
                  LET e == h[b.grids[g].electrodes[k].electrode]
                  IN  [refdes |-> e.refdes,
                       points |-> Translate(e.points, GridFrame(b.grids[g], e))]]])
    \o
    Flatten([p \in 1..Len(b.peripherals) |->
               [k \in 1..Len(b.peripherals[p].electrodes) |->
                  LET e == h[b.peripherals[p].electrodes[k].electrode]
                  IN  [refdes |-> e.refdes,
                       points |-> Translate(
                          [m \in 1..Len(e.points) |->
                             Rotate(e.points[m], b.peripherals[p].rotation)],
                          PeriphFrame(b.peripherals[p], e))]]])

----------------------------------------------------------------------------
(* Texts: digits, the refdes key, the net-name pattern                     *)

DigitChars == <<"0", "1", "2", "3", "4", "5", "6", "7", "8", "9">>

IsDigit(c) == \E d \in 1..10 : DigitChars[d] = c

DigitVal(c) == (CHOOSE d \in 1..10 : DigitChars[d] = c) - 1

RECURSIVE NatStr(_)
NatStr(n) ==
    IF n < 10 THEN <<DigitChars[n + 1]>>
    ELSE NatStr(n \div 10) \o <<DigitChars[(n % 10) + 1]>>

\* str(n) of an integer
IntStr(n) == IF n < 0 THEN <<"-">> \o NatStr(-n) ELSE NatStr(n)

RECURSIVE StrInt(_)
\* int(digits)
StrInt(ds) ==
    IF ds = <<>> THEN 0
    ELSE 10 * StrInt(SubSeq(ds, 1, Len(ds) - 1)) + DigitVal(ds[Len(ds)])

\* f'E{electrode.refdes}'
RefdesKey(refdes) == <<"E">> \o IntStr(refdes)

RECURSIVE DigitRun(_, _)
\* the longest run of digits of s that starts at position k
DigitRun(s, k) ==
    IF k <= Len(s) /\ IsDigit(s[k]) THEN <<s[k]>> \o DigitRun(s, k + 1) ELSE <<>>

\* mutation of re_match: re.search, the pattern found anywhere in the name
re_search(net_name) ==
    LET at == {k \in 1..(Len(net_name) - 2) :
                 /\ net_name[k] = "/"
                 /\ net_name[k + 1] = "P"
                 /\ IsDigit(net_name[k + 2])}
    IN  IF at = {} THEN <<>>
        ELSE DigitRun(net_name, 2 + CHOOSE k \in at : \A m \in at : k <= m)

\* re.match('/P(\d+)', net_name): group 1 of the match, <<>> for no match
re_match(net_name) ==
    IF Len(net_name) >= 2 /\ net_name[1] = "/" /\ net_name[2] = "P"
    THEN DigitRun(net_name, 3)
    ELSE <<>>

\* a dict as a function; the empty dict
EmptyDict == [k \in {} |-> 0]

DictSet(d, key, val) ==
    [k \in (DOMAIN d) \cup {key} |-> IF k = key THEN val ELSE d[k]]

\* None in a pins matrix (pins are never negative)
None == -1

----------------------------------------------------------------------------
(* The script, lines 64-133: board construction, crenellation, save_board  *)

NoBoard == BoardDesign

NoSave == [board |-> NoBoard, origin |-> <<0, 0>>, clearance |-> 0]

Call(fn, a, b) == [fn |-> fn, a |-> a, b |-> b]

\* line 73
reservoir_origin == PtAdd(GRID_ORIGIN, <<GRID_PITCH \div 2, 0>>)

\* line 81: the origin handed to add_peripheral for x_offset
ReservoirPlacement(x_offset) ==
    PtAdd(reservoir_origin,
          <<x_offset * GRID_PITCH, (RESERVOIR_Y_POSITION + 1) * GRID_PITCH>>)

\* mutation of ReservoirCell: the cell the reservoir's top electrode covers
ReservoirCell_covered(x_offset) == <<x_offset, RESERVOIR_Y_POSITION + 1>>

\* line 94: the grid cell paired with the reservoir at x_offset
ReservoirCell(x_offset) == <<x_offset, RESERVOIR_Y_POSITION>>

\* mutation of CrenellatedTarget: the original board is crenellated
CrenellatedTarget_original == board

\* lines 89, 94, 95: the board whose electrodes are crenellated
CrenellatedTarget == crenellated_board

\* line 102: the board that is flattened
ReducedBoard == board

\* mutation of SavedBoard: the original board is saved
SavedBoard_original == board

\* line 133: the board handed to save_board
SavedBoard == crenellated_board

\* lines 226, 227: the board the layout description is derived from
LayoutBoard == board

ScriptInit ==
    /\ pc = "fill_ascii"
    /\ i = 0
    /\ next_refdes = 0
    /\ heap = <<>>
    /\ board = [BoardDesign EXCEPT
                   !.grids = <<Grid(GRID_ORIGIN, <<GRID_WIDTH, GRID_HEIGHT>>,
                                    GRID_PITCH)>>]
    /\ crenellated_board = NoBoard
    /\ heap_at_copy = <<>>
    /\ electrodes = <<>>
    /\ calls = <<>>
    /\ saved = NoSave
    /\ net_table = <<>>
    /\ pin_table = EmptyDict
    /\ printed = <<>>
    /\ rows = <<>>
    /\ grid_dicts = <<>>
    /\ periphs = <<>>
    /\ layout = [grids |-> <<>>, peripherals |-> <<>>]
    /\ file = <<>>

\* line 70: construct.fill_ascii(grid, grid_design)
FillAscii ==
    /\ pc = "fill_ascii"
    /\ LET g == board.grids[1]
           objs == FillObjects(g, grid_design, next_refdes)
       IN  IF FloorPlanError(g, grid_design)
           THEN /\ pc' = "ConfigError"
                /\ UNCHANGED <<heap, board, next_refdes, i>>
           ELSE /\ heap' = heap \o objs
                /\ board' = [board EXCEPT !.grids[1].electrodes =
                                FillEntries(grid_design, Len(heap))]
                /\ next_refdes' = next_refdes + Len(objs)
                /\ i' = 1
                /\ pc' = "add_peripheral"
    /\ calls' = Append(calls, Call("fill_ascii", 0, 0))
    /\ UNCHANGED <<crenellated_board, heap_at_copy, electrodes, saved,
                   net_table, pin_table, printed, rows, grid_dicts, periphs,
                   layout, file, encoderVars>>

\* lines 77-82: one iteration of the add_peripheral loop
AddPeripheral ==
    /\ pc = "add_peripheral"
    /\ LET x_offset == RESERVOIR_X_POSITIONS[i]
           template == load_peripheral
           objs == PeriphObjects(template, next_refdes)
       IN  /\ heap' = heap \o objs
           /\ board' = [board EXCEPT !.peripherals =
                          Append(@, NewPeripheral(board, template,
                                      ReservoirPlacement(x_offset),
                                      np_deg2rad(0), Len(heap)))]
           /\ next_refdes' = next_refdes + Len(objs)
    /\ calls' = Append(calls, Call("add_peripheral", i, 0))
    /\ IF i < Len(RESERVOIR_X_POSITIONS)
       THEN i' = i + 1 /\ pc' = pc
       ELSE i' = 0 /\ pc' = "copy"
    /\ UNCHANGED <<crenellated_board, heap_at_copy, electrodes, saved,
                   net_table, pin_table, printed, rows, grid_dicts, periphs,
                   layout, file, encoderVars>>

\* line 86: crenellated_board = board.copy()
Copy ==
    /\ pc = "copy"
    /\ crenellated_board' = BoardCopy(board, heap)
    /\ heap' = HeapCopy(heap)
    /\ heap_at_copy' = heap'
    /\ calls' = Append(calls, Call("copy", 0, 0))
    /\ pc' = "crenellate_grid"
    /\ UNCHANGED <<i, next_refdes, board, electrodes, saved, net_table,
                   pin_table, printed, rows, grid_dicts, periphs, layout,
                   file, encoderVars>>

\* line 89: crenellate_grid(crenellated_board.grids[0], ...)
CrenellateGrid ==
    /\ pc = "crenellate_grid"
    /\ heap' = crenellate_grid(heap, CrenellatedTarget.grids[1],
                               NUM_DIGITS, THETA, CrenMargin)
    /\ calls' = Append(calls, Call("crenellate_grid", 0, 0))
    /\ i' = 1
    /\ pc' = "crenellate_electrodes"
    /\ UNCHANGED <<next_refdes, board, crenellated_board, heap_at_copy,
                   electrodes, saved, net_table, pin_table, printed, rows,
                   grid_dicts, periphs, layout, file, encoderVars>>

\* lines 92-99: one iteration of the reservoir-interface loop
CrenellateReservoir ==
    /\ pc = "crenellate_electrodes"
    /\ LET x_offset == RESERVOIR_X_POSITIONS[i]
           g == CrenellatedTarget.grids[1]
           p == CrenellatedTarget.peripherals[i]
           a == GridElectrode(g, ReservoirCell(x_offset))
           b == PeriphElectrode(p, "A")
       IN  IF a = 0 \/ b = 0
           THEN /\ pc' = "KeyError"
                /\ UNCHANGED <<heap, i>>
                /\ calls' = calls
           ELSE /\ heap' = crenellate_electrodes(
                              heap, a, GridFrame(g, heap[a]),
                              b, PeriphFrame(p, heap[b]),
                              NUM_DIGITS, THETA, CrenMargin)
                /\ calls' = Append(calls, Call("crenellate_electrodes", a, b))
                /\ IF i < Len(RESERVOIR_X_POSITIONS)
                   THEN i' = i + 1 /\ pc' = pc
                   ELSE i' = 0 /\ pc' = "reduce"
    /\ UNCHANGED <<next_refdes, board, crenellated_board, heap_at_copy,
                   electrodes, saved, net_table, pin_table, printed, rows,
                   grid_dicts, periphs, layout, file, encoderVars>>

\* line 102: electrodes = reduce_board_to_electrodes(board)
Reduce ==
    /\ pc = "reduce"
    /\ electrodes' = reduce_board_to_electrodes(ReducedBoard, heap)
    /\ calls' = Append(calls, Call("reduce_board_to_electrodes", 0, 0))
    /\ pc' = "save_board"
    /\ UNCHANGED <<i, next_refdes, heap, board, crenellated_board,
                   heap_at_copy, saved, net_table, pin_table, printed, rows,
                   grid_dicts, periphs, layout, file, encoderVars>>

\* line 133: save_board(crenellated_board, BOARD_ORIGIN, projdir, CLEARANCE)
SaveBoard ==
    /\ pc = "save_board"
    /\ saved' = [board |-> SavedBoard, origin |-> BOARD_ORIGIN,
                 clearance |-> CLEARANCE]
    /\ calls' = Append(calls, Call("save_board", 0, 0))
    /\ pc' = "extract_electrode_nets"
    /\ UNCHANGED <<i, next_refdes, heap, board, crenellated_board,
                   heap_at_copy, electrodes, net_table, pin_table, printed,
                   rows, grid_dicts, periphs, layout, file, encoderVars>>

----------------------------------------------------------------------------
(* The script, lines 183-238: pin table and layout description             *)

\* the net tables extract_electrode_nets may return: the base table gives
\* every electrode refdes a net /P<pin>; a variant replaces the net of the
\* first or of the last refdes
PinOfRefdes(refdes) == 2 * refdes + 1

VariantNets ==
    { <<>>, <<"G", "N", "D">>, <<"/", "P">>, <<"P", "7">>,
      <<"/", "P", "x", "7">>, <<"/", "P", "1", "2", "x">>,
      <<"/", "p", "3">>, <<" ", "/", "P", "1">>, <<"/", "P", "0", "4">> }

BaseNetTable(n) ==
    [k \in 1..n |-> [refdes |-> RefdesKey(k - 1),
                     net |-> <<"/", "P">> \o IntStr(PinOfRefdes(k - 1))]]

VariantPositions(n) ==
    {1, n}

NetTables(n) ==
    {BaseNetTable(n)} \cup
    {[BaseNetTable(n) EXCEPT ![k].net = net] :
        k \in VariantPositions(n), net \in VariantNets}

\* line 183: net_table = extract_electrode_nets(...); one net per electrode
\* footprint save_board wrote
ExtractElectrodeNets ==
    /\ pc = "extract_electrode_nets"
    /\ net_table' \in NetTables(next_refdes)
    /\ pin_table' = EmptyDict
    /\ i' = 1
    /\ pc' = "pin_table"
    /\ UNCHANGED <<next_refdes, heap, board, crenellated_board, heap_at_copy,
                   electrodes, calls, saved, printed, rows, grid_dicts,
                   periphs, layout, file, encoderVars>>

\* lines 188-194: one iteration of the pin-table loop, or its end
PinTableStep ==
    /\ pc = "pin_table"
    /\ IF i > Len(net_table)
       THEN /\ pc' = "grid_dicts"
            /\ i' = 0
            /\ UNCHANGED <<pin_table, printed>>
       ELSE LET refdes == net_table[i].refdes
                net_name == net_table[i].net
                match == re_match(net_name)
            IN  /\ IF match = <<>>
                   THEN /\ printed' = Append(printed, net_name)
                        /\ pin_table' = pin_table
                   ELSE /\ pin_table' = DictSet(pin_table, refdes, StrInt(match))
                        /\ printed' = printed
                /\ i' = i + 1
                /\ pc' = pc
    /\ UNCHANGED <<next_refdes, heap, board, crenellated_board, heap_at_copy,
                   electrodes, calls, saved, net_table, rows, grid_dicts,
                   periphs, layout, file, encoderVars>>

\* mutation of PinsRows: [[None] * width] * height, one row list shared by
\* every row of the matrix
PinsRows_shared(height, base) == [r \in 1..height |-> base + 1]

\* line 203: the addresses of the row lists of a new pins matrix
PinsRows(height, base) == [r \in 1..height |-> base + r]

\* lines 204-205: ret['pins'][pos[1]][pos[0]] = pin_table[...] for every
\* entry of grid.electrodes, in order: a cell of a list object ends with the
\* pin of the last entry written to it, or with what it held before
WritePins(store, pins, entries, h, table) ==
    LET written(id, c) ==
            {k \in 1..Len(entries) :
                /\ entries[k].pos[2] + 1 \in DOMAIN pins
                /\ pins[entries[k].pos[2] + 1] = id
                /\ entries[k].pos[1] + 1 = c}
        last(S) == CHOOSE k \in S : \A m \in S : m <= k
    IN  [id \in 1..Len(store) |->
           [c \in 1..Len(store[id]) |->
              IF written(id, c) = {} THEN store[id][c]
              ELSE table[RefdesKey(
                      h[entries[last(written(id, c))].electrode].refdes)]]]

\* the pin_table lookups of create_grid_dict / create_periph_dict succeed
GridKeysPresent(g, h, table) ==
    \A k \in 1..Len(g.electrodes) :
        RefdesKey(h[g.electrodes[k].electrode].refdes) \in DOMAIN table

PeriphKeysPresent(p, h, table) ==
    \A k \in 1..Len(p.electrodes) :
        RefdesKey(h[p.electrodes[k].electrode].refdes) \in DOMAIN table

\* lines 199-206: create_grid_dict, given the list store; the result and
\* the store after the call
create_grid_dict(g, h, table, store) ==
    LET pins == PinsRows(GridHeight(g), Len(store))
        fresh == store \o [r \in 1..GridHeight(g) |->
                             [c \in 1..GridWidth(g) |-> None]]
    IN  [ret |-> [origin |-> g.origin, pitch |-> g.pitch, pins |-> pins],
         store |-> WritePins(fresh, pins, g.electrodes, h, table)]

RECURSIVE GridDictsFrom(_, _, _, _, _)
\* line 226: [create_grid_dict(g) for g in board.grids]
GridDictsFrom(b, k, h, table, acc) ==
    IF k > Len(b.grids) THEN acc
    ELSE LET r == create_grid_dict(b.grids[k], h, table, acc.store)
         IN  GridDictsFrom(b, k + 1, h, table,
                           [dicts |-> Append(acc.dicts, r.ret), store |-> r.store])

\* mutation of create_periph_dict: the electrodes in reverse order
create_periph_dict_reversed(p, h, table) ==
    [class |-> p.peripheral_class,
     type |-> p.peripheral_type,
     id |-> p.id,
     origin |-> PeriphGlobalOrigin(p),
     rotation |-> np_rad2deg(p.rotation),
     electrodes |-> Reverse([k \in 1..Len(p.electrodes) |->
        LET e == h[p.electrodes[k].electrode]
        IN  [id |-> p.electrodes[k].id,
             pin |-> table[RefdesKey(e.refdes)],
             polygon |-> e.points,
             origin |-> e.origin]])]

\* lines 208-224: create_periph_dict
create_periph_dict(p, h, table) ==
    [class |-> p.peripheral_class,
     type |-> p.peripheral_type,
     id |-> p.id,
     origin |-> PeriphGlobalOrigin(p),
     rotation |-> np_rad2deg(p.rotation),
     electrodes |-> [k \in 1..Len(p.electrodes) |->
        LET e == h[p.electrodes[k].electrode]
        IN  [id |-> p.electrodes[k].id,
             pin |-> table[RefdesKey(e.refdes)],
             polygon |-> e.points,
             origin |-> e.origin]]]

\* line 226
GridDicts ==
    /\ pc = "grid_dicts"
    /\ IF \A k \in 1..Len(LayoutBoard.grids) :
             GridKeysPresent(LayoutBoard.grids[k], heap, pin_table)
       THEN LET r == GridDictsFrom(LayoutBoard, 1, heap, pin_table,
                                   [dicts |-> <<>>, store |-> rows])
            IN  /\ grid_dicts' = r.dicts
                /\ rows' = r.store
                /\ pc' = "periphs"
       ELSE /\ pc' = "KeyError"
            /\ UNCHANGED <<grid_dicts, rows>>
    /\ UNCHANGED <<i, next_refdes, heap, board, crenellated_board,
                   heap_at_copy, electrodes, calls, saved, net_table,
                   pin_table, printed, periphs, layout, file, encoderVars>>

\* line 227
Periphs ==
    /\ pc = "periphs"
    /\ IF \A k \in 1..Len(LayoutBoard.peripherals) :
             PeriphKeysPresent(LayoutBoard.peripherals[k], heap, pin_table)
       THEN /\ periphs' = [k \in 1..Len(LayoutBoard.peripherals) |->
                  create_periph_dict(LayoutBoard.peripherals[k], heap, pin_table)]
            /\ pc' = "layout"
       ELSE /\ pc' = "KeyError"
            /\ periphs' = periphs
    /\ UNCHANGED <<i, next_refdes, heap, board, crenellated_board,
                   heap_at_copy, electrodes, calls, saved, net_table,
                   pin_table, printed, rows, grid_dicts, layout, file,
                   encoderVars>>

\* lines 228-233
Layout ==
    /\ pc = "layout"
    /\ layout' = [grids |-> grid_dicts, peripherals |-> periphs]
    /\ pc' = "write"
    /\ UNCHANGED <<i, next_refdes, heap, board, crenellated_board,
                   heap_at_copy, electrodes, calls, saved, net_table,
                   pin_table, printed, rows, grid_dicts, periphs, file,
                   encoderVars>>

\* lines 235-236: the layout is written (its text is the encoder's, below)
WriteFile ==
    /\ pc = "write"
    /\ file' = <<layout>>
    /\ pc' = "done"
    /\ UNCHANGED <<i, next_refdes, heap, board, crenellated_board,
                   heap_at_copy, electrodes, calls, saved, net_table,
                   pin_table, printed, rows, grid_dicts, periphs, layout,
                   encoderVars>>

----------------------------------------------------------------------------
(* Python values and their texts: json.dumps of a scalar, str() of a list, *)
(* the standard encoder                                                    *)

Value(t, n, s, kids) == [t |-> t, i |-> n, s |-> s, kids |-> kids]

NoneV == Value("none", 0, <<>>, <<>>)

TrueV == Value("true", 0, <<>>, <<>>)

FalseV == Value("false", 0, <<>>, <<>>)

IntV(n) == Value("int", n, <<>>, <<>>)

StrV(s) == Value("str", 0, s, <<>>)

ListV(kids) == Value("list", 0, <<>>, kids)

TupleV(kids) == Value("tuple", 0, <<>>, kids)

\* a dict: its items in insertion order, each a (key, value) pair
PairV(k, v) == Value("pair", 0, <<>>, <<k, v>>)

DictV(items) == Value("dict", 0, <<>>, items)

IsListOrTuple(v) == v.t \in {"list", "tuple"}

IsContainer(v) == v.t \in {"list", "tuple", "dict"}

\* sep.join(texts)
Join(texts, sep) ==
    Flatten([k \in 1..Len(texts) |->
               IF k = 1 THEN texts[k] ELSE sep \o texts[k]])

\* repr() of a str: single quotes, unless it holds ' and no "
PyReprStr(s) ==
    LET hasS == \E k \in 1..Len(s) : s[k] = "'"
        hasD == \E k \in 1..Len(s) : s[k] = "\""
        q == IF hasS /\ ~hasD THEN "\"" ELSE "'"
    IN  <<q>> \o Flatten([k \in 1..Len(s) |->
                   IF s[k] = "\\" THEN <<"\\", "\\">>
                   ELSE IF s[k] = q THEN <<"\\", q>>
                   ELSE <<s[k]>>]) \o <<q>>

\* repr() of a scalar
PyRepr(v) ==
    CASE v.t = "none"  -> <<"N", "o", "n", "e">>
      [] v.t = "true"  -> <<"T", "r", "u", "e">>
      [] v.t = "false" -> <<"F", "a", "l", "s", "e">>
      [] v.t = "int"   -> IntStr(v.i)
      [] v.t = "str"   -> PyReprStr(v.s)

\* str() of a list or tuple of scalars
PyStr(v) ==
    LET inner == Join([k \in 1..Len(v.kids) |-> PyRepr(v.kids[k])], <<",", " ">>)
    IN  IF v.t = "list" THEN <<"[">> \o inner \o <<"]">>
        ELSE IF Len(v.kids) = 1 THEN <<"(">> \o inner \o <<",", ")">>
        ELSE <<"(">> \o inner \o <<")">>

\* json.dumps of a str
JsonString(s) ==
    <<"\"">> \o Flatten([k \in 1..Len(s) |->
                   IF s[k] = "\\" THEN <<"\\", "\\">>
                   ELSE IF s[k] = "\"" THEN <<"\\", "\"">>
                   ELSE <<s[k]>>]) \o <<"\"">>

\* json.dumps of a scalar
JsonScalar(v) ==
    CASE v.t = "none"  -> <<"n", "u", "l", "l">>
      [] v.t = "true"  -> <<"t", "r", "u", "e">>
      [] v.t = "false" -> <<"f", "a", "l", "s", "e">>
      [] v.t = "int"   -> IntStr(v.i)
      [] v.t = "str"   -> JsonString(v.s)

\* the standard encoder's key of a dict item: a str key as it is, any other
\* scalar key as the str of its JSON text
StdKey(k) ==
    IF k.t = "str" THEN JsonString(k.s)
    ELSE <<"\"">> \o JsonScalar(k) \o <<"\"">>

RECURSIVE StdEncode(_)
\* json.JSONEncoder().encode
StdEncode(v) ==
    IF IsListOrTuple(v)
    THEN <<"[">> \o Join([k \in 1..Len(v.kids) |-> StdEncode(v.kids[k])],
                         <<",", " ">>) \o <<"]">>
    ELSE IF v.t = "dict"
    THEN <<"{">> \o Join([k \in 1..Len(v.kids) |->
                            StdKey(v.kids[k].kids[1]) \o <<":", " ">>
                            \o StdEncode(v.kids[k].kids[2])],
                         <<",", " ">>) \o <<"}">>
    ELSE JsonScalar(v)

----------------------------------------------------------------------------
(* CompactJSONEncoder, lines 145-181                                       *)

\* line 177: the limit on len(str(o)) - 2
SingleLineLimit == 60

\* line 176: the limit on len(o)
SingleLineItems == 2

\* lines 173-177: _is_single_line_list
IsSingleLineList(v) ==
    /\ IsListOrTuple(v)
    /\ ~ \E k \in 1..Len(v.kids) : IsContainer(v.kids[k])
    /\ Len(v.kids) <= SingleLineItems
    /\ Len(PyStr(v)) - 2 <= SingleLineLimit

\* lines 179-181: indent_str
IndentStr(level) == [k \in 1..level |-> " "]

\* lines 159, 165: self.indentation_level += 1
LevelEntered(level) == level + 1

\* mutation of LevelLeft: the level is not taken back
LevelLeft_kept(level) == level

\* lines 161, 167: self.indentation_level -= 1
LevelLeft(level) == level - 1

RECURSIVE Encode(_, _)
RECURSIVE EncodeItems(_, _, _, _)

\* lines 160, 166: the list comprehension over the children, from child k
\* on, at indentation level `level`; the texts and the level it ends with
EncodeItems(v, k, level, acc) ==
    IF k > Len(v.kids) THEN [outs |-> acc, level |-> level]
    ELSE LET kid == v.kids[k]
             r == IF v.t = "dict"
                  THEN Encode(kid.kids[2], level)
                  ELSE Encode(kid, level)
             text == IF v.t = "dict"
                     THEN IndentStr(level) \o JsonScalar(kid.kids[1])
                          \o <<":", " ">> \o r.out
                     ELSE IndentStr(level) \o r.out
         IN  EncodeItems(v, k + 1, r.level, Append(acc, text))

\* lines 152-171: encode, called with indentation_level = level; the text
\* returned and the indentation level the encoder is left with
Encode(v, level) ==
    IF IsListOrTuple(v) /\ IsSingleLineList(v)
    THEN [out |-> <<"[">> \o Join([k \in 1..Len(v.kids) |->
                                     JsonScalar(v.kids[k])], <<",", " ">>)
                  \o <<"]">>,
          level |-> level]
    ELSE IF IsContainer(v)
    THEN LET items == EncodeItems(v, 1, LevelEntered(level), <<>>)
             after == LevelLeft(items.level)
             open == IF v.t = "dict" THEN "{" ELSE "["
             close == IF v.t = "dict" THEN "}" ELSE "]"
         IN  [out |-> <<open, "\n">> \o Join(items.outs, <<",", "\n">>)
                      \o <<"\n">> \o IndentStr(after) \o <<close>>,
              level |-> after]
    ELSE [out |-> JsonScalar(v), level |-> level]

----------------------------------------------------------------------------
(* The values handed to the encoder                                        *)

\* bounds: elements of a leaf list, nesting depth, encode calls on one
\* encoder instance
MaxListLen == 3
MaxDepth == 2
MaxEncodeCalls == 2

Rep(c, n) == [k \in 1..n |-> c]

SeqsUpTo(S, n) == UNION {[1..m -> S] : m \in 0..n}

ElementScalars == {NoneV, IntV(7), StrV(<<"a", "\"">>)}

OtherScalars == {TrueV, FalseV, IntV(-12), StrV(<<>>), StrV(<<"'", "a">>)}

\* strings whose length is near the single-line limit
LongStrings ==
    {StrV(Rep("a", n)) : n \in (SingleLineLimit - 4)..(SingleLineLimit - 1)}
    \cup {StrV(Rep("\"", n)) :
            n \in {SingleLineLimit \div 2 - 2, SingleLineLimit \div 2}}
    \cup {StrV(<<"'">> \o Rep("a", SingleLineLimit - 3))}

LeafSeqs ==
    SeqsUpTo(ElementScalars, MaxListLen)
    \cup {<<x>> : x \in OtherScalars \cup LongStrings}
    \cup {<<x, StrV(<<>>)>> : x \in LongStrings}
    \cup {<<IntV(7), x>> : x \in LongStrings}

DictKeys == {StrV(<<"k">>), StrV(<<"a", "\"">>), IntV(1), NoneV}

\* dicts of at most two items over the values S
DictsOver(S) ==
    {DictV(<<>>)}
    \cup {DictV(<<PairV(k, x)>>) : k \in DictKeys, x \in S}
    \cup {DictV(<<PairV(StrV(<<"k">>), x), PairV(k, IntV(7))>>) :
            k \in DictKeys \ {StrV(<<"k">>)}, x \in S}

Depth1Values ==
    {ListV(s) : s \in LeafSeqs}
    \cup {TupleV(s) : s \in {t \in LeafSeqs : Len(t) # 3}}
    \cup {TupleV(<<x, x, x>>) : x \in ElementScalars}
    \cup DictsOver({NoneV, StrV(<<"a">>)})

\* one more level of nesting around the values S
Wrapped(S) ==
    {ListV(<<x>>) : x \in S}
    \cup {TupleV(<<x, ListV(<<IntV(7), IntV(7)>>)>>) : x \in S}
    \cup {DictV(<<PairV(StrV(<<"k">>), x)>>) : x \in S}
    \cup {DictV(<<PairV(IntV(1), x), PairV(StrV(<<"k">>), IntV(7))>>) : x \in S}

RECURSIVE ValuesOfDepth(_)
ValuesOfDepth(d) ==
    IF d <= 1 THEN Depth1Values ELSE Wrapped(ValuesOfDepth(d - 1))

Values ==
    ElementScalars \cup OtherScalars
    \cup UNION {ValuesOfDepth(d) : d \in 1..MaxDepth}

\* an encoder is constructed (line 150) and encode is called on it
EncodeCall ==
    /\ pc = "encode"
    /\ Len(output) < MaxEncodeCalls
    /\ LET r == Encode(o, indentation_level)
       IN  /\ output' = Append(output, r.out)
           /\ indentation_level' = r.level
    /\ UNCHANGED <<o, scriptVars>>

EncoderIdle ==
    /\ o = NoneV
    /\ indentation_level = 0
    /\ output = <<>>

Init == ScriptInit /\ EncoderIdle

Next ==
    \/ FillAscii
    \/ AddPeripheral
    \/ Copy
    \/ CrenellateGrid
    \/ CrenellateReservoir
    \/ Reduce
    \/ SaveBoard
    \/ ExtractElectrodeNets
    \/ PinTableStep
    \/ GridDicts
    \/ Periphs
    \/ Layout
    \/ WriteFile

Spec == Init /\ [][Next]_vars

\* the script's variables when only one of its functions is exercised
ScriptAt(label) ==
    /\ pc = label
    /\ i = 0
    /\ next_refdes = 0
    /\ heap = <<>>
    /\ board = BoardDesign
    /\ crenellated_board = NoBoard
    /\ heap_at_copy = <<>>
    /\ electrodes = <<>>
    /\ calls = <<>>
    /\ saved = NoSave
    /\ net_table = <<>>
    /\ pin_table = EmptyDict
    /\ printed = <<>>
    /\ rows = <<>>
    /\ grid_dicts = <<>>
    /\ periphs = <<>>
    /\ layout = [grids |-> <<>>, peripherals |-> <<>>]
    /\ file = <<>>

\* CompactJSONEncoder on its own: a fresh encoder and a value to encode
EncodeInit ==
    /\ ScriptAt("encode")
    /\ o \in Values
    /\ indentation_level = 0
    /\ output = <<>>

EncodeNext == EncodeCall

SpecEncode == EncodeInit /\ [][EncodeNext]_vars

----------------------------------------------------------------------------
(* create_grid_dict on its own: small boards of one or more grids, every   *)
(* occupancy of the lattice, a pin table with or without every electrode   *)

\* bounds of the small boards
MaxGridWidth == 2
MaxGridHeight == 2
MaxGrids == 2

LatticeCells(w, h) == [k \in 1..(w * h) |-> <<(k - 1) % w, (k - 1) \div w>>]

SmallBoard(n, w, h, occ) ==
    LET cells == SelectSeq(LatticeCells(w, h), LAMBDA c : c \in occ)
    IN  [grids |-> [g \in 1..n |->
            [Grid(<<g * GRID_PITCH, 0>>, <<w, h>>, GRID_PITCH) EXCEPT
               !.electrodes = [k \in 1..Len(cells) |->
                  [pos |-> cells[k],
                   electrode |-> (g - 1) * Len(cells) + k]]]],
         peripherals |-> <<>>]

SmallHeap(n, w, h, occ) ==
    LET cells == SelectSeq(LatticeCells(w, h), LAMBDA c : c \in occ)
    IN  [a \in 1..(n * Len(cells)) |->
           Electrode(a - 1, SquarePoints(GRID_PITCH),
                     <<cells[((a - 1) % Len(cells)) + 1][1] * GRID_PITCH,
                       cells[((a - 1) % Len(cells)) + 1][2] * GRID_PITCH>>)]

\* the pin table of the first `present` of `count` electrodes
SmallPinTable(present) ==
    [key \in {RefdesKey(r) : r \in 0..(present - 1)} |->
        PinOfRefdes(CHOOSE r \in 0..(present - 1) : RefdesKey(r) = key)]

GridInit ==
    /\ pc = "grid_dicts"
    /\ \E n \in 1..MaxGrids, w \in 1..MaxGridWidth, h \in 1..MaxGridHeight :
         \E occ \in SUBSET {<<x, y>> : x \in 0..(w - 1), y \in 0..(h - 1)} :
            /\ board = SmallBoard(n, w, h, occ)
            /\ heap = SmallHeap(n, w, h, occ)
            /\ \E missing \in 0..1 :
                  /\ missing <= n * Cardinality(occ)
                  /\ pin_table = SmallPinTable(n * Cardinality(occ) - missing)
    /\ i = 0
    /\ next_refdes = Len(heap)
    /\ crenellated_board = NoBoard
    /\ heap_at_copy = <<>>
    /\ electrodes = <<>>
    /\ calls = <<>>
    /\ saved = NoSave
    /\ net_table = <<>>
    /\ printed = <<>>
    /\ rows = <<>>
    /\ grid_dicts = <<>>
    /\ periphs = <<>>
    /\ layout = [grids |-> <<>>, peripherals |-> <<>>]
    /\ file = <<>>
    /\ EncoderIdle

GridNext == GridDicts

SpecGrid == GridInit /\ [][GridNext]_vars

----------------------------------------------------------------------------
(* Definitions shared by the properties                                    *)

Terminated == pc \in {"done", "KeyError", "ConfigError"}

\* the addresses of the electrodes a board refers to
BoardAddresses(b) ==
    UNION {{b.grids[g].electrodes[k].electrode :
               k \in 1..Len(b.grids[g].electrodes)} :
           g \in 1..Len(b.grids)}
    \cup UNION {{b.peripherals[p].electrodes[k].electrode :
                    k \in 1..Len(b.peripherals[p].electrodes)} :
                p \in 1..Len(b.peripherals)}

\* the places of the calls of a library function in the history
CallsOf(fn) == {k \in 1..Len(calls) : calls[k].fn = fn}

CallsBefore(fn, k) == {j \in CallsOf(fn) : j < k}

\* what Python's re.match and int give for the nets the model draws from,
\* worked out by hand: the pin of entry k of a net table, -1 for no match
ExpectedPin(table, k) ==
    LET net == table[k].net
    IN  IF net = <<"/", "P">> \o IntStr(PinOfRefdes(k - 1))
        THEN PinOfRefdes(k - 1)
        ELSE IF net = <<"/", "P", "1", "2", "x">> THEN 12
        ELSE IF net = <<"/", "P", "0", "4">> THEN 4
        ELSE -1

\* the entries of the net table the pin-table loop has been through
EntriesDone ==
    IF pc = "pin_table" THEN i - 1
    ELSE IF pc \in {"grid_dicts", "periphs", "layout", "write", "done", "KeyError"}
    THEN Len(net_table) ELSE 0

----------------------------------------------------------------------------
(* C1: a net name that does not match the pattern is reported and the      *)
(* export still goes through: once the script has ended on a net table     *)
(* with a mismatching net, the mismatch was reported, the grid and         *)
(* peripheral dictionaries were built and the layout file was written.     *)
C1_MismatchKeepsExport ==
    (Terminated /\ \E k \in 1..Len(net_table) : ExpectedPin(net_table, k) < 0)
    => /\ pc = "done"
       /\ printed # <<>>
       /\ Len(grid_dicts) = Len(board.grids)
       /\ Len(periphs) = Len(board.peripherals)
       /\ file # <<>>

(* C2: the pin-table loop goes through every entry of the net table: after *)
(* any number of entries the table's keys are exactly the refdes, among    *)
(* those entries, whose net matches; each maps to the integer of the       *)
(* digits of its net; the mismatching nets, and only they, were reported,  *)
(* in order; and the loop ends only after the last entry.                  *)
C2_PinTableKeys ==
    LET done == EntriesDone
        good == {k \in 1..done : ExpectedPin(net_table, k) >= 0}
    IN  /\ DOMAIN pin_table = {net_table[k].refdes : k \in good}
        /\ \A k \in good :
              pin_table[net_table[k].refdes] = ExpectedPin(net_table, k)
        /\ printed = [m \in 1..Len(printed) |-> printed[m]]
        /\ LET bad == SelectSeq(Iota(done),
                         LAMBDA k : ExpectedPin(net_table, k) < 0)
           IN  printed = [m \in 1..Len(bad) |-> net_table[bad[m]].net]
        /\ pc = "pin_table" => i <= Len(net_table) + 1

C2_Witness ==
    /\ pc = "grid_dicts"
    /\ net_table[1].net = <<"G", "N", "D">>
    /\ printed = << <<"G", "N", "D">> >>
    /\ Cardinality(DOMAIN pin_table) = Len(net_table) - 1
    /\ net_table[Len(net_table)].refdes \in DOMAIN pin_table

(* C3: after board.copy(), whatever crenellation steps have run, every     *)
(* electrode polygon of the original board is what it was when the copy    *)
(* was taken, and every electrode that changed belongs to the copy.        *)
C3_OriginalUntouched ==
    heap_at_copy # <<>> =>
       LET original == BoardAddresses(board)
           copied == BoardAddresses(crenellated_board)
       IN  /\ \A a \in original : heap[a].points = heap_at_copy[a].points
           /\ \A a \in (1..Len(heap)) \ (copied \ original) :
                 heap[a] = heap_at_copy[a]

C3_Witness ==
    /\ pc = "reduce"
    /\ \A p \in 1..Len(crenellated_board.peripherals) :
          LET a == PeriphElectrode(crenellated_board.peripherals[p], "A")
          IN  Len(heap[a].points) > Len(heap_at_copy[a].points)
    /\ \E a \in BoardAddresses(crenellated_board) :
          Len(heap[a].points) = 4 + 4 * (NUM_DIGITS + 2)

(* C4: the copy is taken after fill_ascii and after all the reservoirs     *)
(* were added; save_board is called after crenellate_grid and all the      *)
(* reservoir crenellations, with the crenellated copy, the board origin    *)
(* and the clearance; the flattened electrode list and the layout          *)
(* description hold the polygons of the original, uncrenellated board.     *)
C4_Pipeline ==
    /\ \A k \in CallsOf("copy") :
          /\ CallsBefore("fill_ascii", k) # {}
          /\ Cardinality(CallsBefore("add_peripheral", k))
                = Len(RESERVOIR_X_POSITIONS)
    /\ \A k \in CallsOf("save_board") :
          /\ CallsBefore("copy", k) # {}
          /\ CallsBefore("crenellate_grid", k) # {}
          /\ Cardinality(CallsBefore("crenellate_electrodes", k))
                = Len(RESERVOIR_X_POSITIONS)
    /\ CallsOf("save_board") # {} =>
          /\ saved.board = crenellated_board
          /\ BoardAddresses(saved.board) # {}
          /\ BoardAddresses(saved.board) \cap BoardAddresses(board) = {}
          /\ \E a \in BoardAddresses(saved.board) :
                heap[a].points # heap_at_copy[a].points
          /\ saved.origin = <<162500, 62250>>
          /\ saved.clearance = 110
    /\ CallsOf("reduce_board_to_electrodes") # {} =>
          electrodes = reduce_board_to_electrodes(board, heap_at_copy)
    /\ pc \in {"write", "done"} =>
          /\ Len(layout.grids) = Len(board.grids)
          /\ \A p \in 1..Len(board.peripherals) :
                \A k \in 1..Len(board.peripherals[p].electrodes) :
                   layout.peripherals[p].electrodes[k].polygon =
                      heap_at_copy[board.peripherals[p].electrodes[k].electrode].points

C4_Witness ==
    /\ pc = "done"
    /\ CallsOf("save_board") # {}
    /\ Len(electrodes) = Cardinality(BoardAddresses(board))
    /\ Len(layout.peripherals) = Len(RESERVOIR_X_POSITIONS)

(* C5: for every grid create_grid_dict returns a pins matrix of            *)
(* grid.height rows of grid.width entries; the entry of row r, column c is *)
(* the pin of the electrode at (c, r) when the cell is occupied and None   *)
(* when it is empty; no two rows are the same list object.                 *)
C5_PinsMatrix ==
    pc = "periphs" =>
       /\ Len(grid_dicts) = Len(board.grids)
       /\ \A g \in 1..Len(board.grids) :
             LET G == board.grids[g]
                 pins == grid_dicts[g].pins
             IN  /\ Len(pins) = GridHeight(G)
                 /\ \A r \in 1..Len(pins) :
                       /\ pins[r] \in 1..Len(rows)
                       /\ Len(rows[pins[r]]) = GridWidth(G)
                       /\ \A c \in 1..GridWidth(G) :
                             LET a == GridElectrode(G, <<c - 1, r - 1>>)
                             IN  rows[pins[r]][c] =
                                   IF a = 0 THEN None
                                   ELSE pin_table[RefdesKey(heap[a].refdes)]
       /\ \A g1, g2 \in 1..Len(grid_dicts) :
             \A r1 \in 1..Len(grid_dicts[g1].pins),
                r2 \in 1..Len(grid_dicts[g2].pins) :
                   <<g1, r1>> # <<g2, r2>> =>
                      grid_dicts[g1].pins[r1] # grid_dicts[g2].pins[r2]

C5_Witness ==
    /\ pc = "periphs"
    /\ Len(board.grids) = MaxGrids
    /\ GridWidth(board.grids[1]) > 1
    /\ GridHeight(board.grids[1]) > 1
    /\ GridElectrode(board.grids[1], <<0, 0>>) = 0
    /\ GridElectrode(board.grids[1], <<1, 1>>) # 0
    /\ rows[grid_dicts[1].pins[2]][2] # None
    /\ rows[grid_dicts[1].pins[1]][2] = None

----------------------------------------------------------------------------
(* The layout of an encoded text                                           *)

\* the lines of a text
Lines(text) ==
    LET nl == SelectSeq(Iota(Len(text)), LAMBDA k : text[k] = "\n")
    IN  [m \in 1..(Len(nl) + 1) |->
           SubSeq(text, IF m = 1 THEN 1 ELSE nl[m - 1] + 1,
                        IF m = Len(nl) + 1 THEN Len(text) ELSE nl[m] - 1)]

LeadSpaces(line) ==
    CHOOSE n \in 0..Len(line) :
        /\ \A k \in 1..n : line[k] = " "
        /\ n = Len(line) \/ line[n + 1] # " "

\* of every line that is not empty: its indentation, and whether it starts
\* with a closing bracket
ObservedShape(text) ==
    LET ls == SelectSeq(Lines(text), LAMBDA l : l # <<>>)
    IN  [m \in 1..Len(ls) |->
           [indent |-> LeadSpaces(ls[m]),
            closes |-> /\ LeadSpaces(ls[m]) < Len(ls[m])
                       /\ ls[m][LeadSpaces(ls[m]) + 1] \in {"]", "}"}]]

\* the length that decides whether a leaf list stays on one line: of
\* Python's str() of the list without its two brackets (byRepr), or of the
\* JSON text between the brackets
LeafLength(v, byRepr) ==
    IF byRepr THEN Len(PyStr(v)) - 2
    ELSE Len(Join([k \in 1..Len(v.kids) |-> JsonScalar(v.kids[k])], <<",", " ">>))

OnOneLine(v, byRepr) ==
    \/ ~IsContainer(v)
    \/ /\ IsListOrTuple(v)
       /\ \A k \in 1..Len(v.kids) : ~IsContainer(v.kids[k])
       /\ Len(v.kids) <= 2
       /\ LeafLength(v, byRepr) <= 60

RECURSIVE ExpectedShape(_, _, _)
\* the shape of the text of v when v starts on a line indented by d
ExpectedShape(v, d, byRepr) ==
    IF OnOneLine(v, byRepr)
    THEN <<[indent |-> d, closes |-> FALSE]>>
    ELSE <<[indent |-> d, closes |-> FALSE]>>
         \o Flatten([k \in 1..Len(v.kids) |->
               ExpectedShape(IF v.t = "dict" THEN v.kids[k].kids[2]
                             ELSE v.kids[k], d + 1, byRepr)])
         \o <<[indent |-> d, closes |-> TRUE]>>

LayoutAsClaimed(byRepr) ==
    \A m \in 1..Len(output) :
       /\ (\A k \in 1..Len(output[m]) : output[m][k] # "\n") <=> OnOneLine(o, byRepr)
       /\ ObservedShape(output[m]) = ExpectedShape(o, 0, byRepr)

\* a text without the spaces and line breaks that lie outside its strings
StripWhitespace(text) ==
    LET quote(k) ==
            /\ text[k] = "\""
            /\ LET run == CHOOSE n \in 0..(k - 1) :
                             /\ \A j \in (k - n)..(k - 1) : text[j] = "\\"
                             /\ n = k - 1 \/ text[k - n - 1] # "\\"
               IN  run % 2 = 0
        inString(k) == Cardinality({j \in 1..(k - 1) : quote(j)}) % 2 = 1
    IN  SelectSeq([k \in 1..Len(text) |->
                     IF text[k] \in {" ", "\n"} /\ ~inString(k)
                     THEN "" ELSE text[k]],
                  LAMBDA c : c # "")

----------------------------------------------------------------------------
(* C6, as amended: a list or tuple is rendered on one line exactly when it *)
(* has no list, tuple or dict element, has at most 2 elements and Python's *)
(* str() of it, without its two brackets, is at most 60 characters long;   *)
(* every other list or tuple and every dict is rendered on several lines,  *)
(* each child starting its own line one space deeper than its container    *)
(* and the closing bracket at the container's own indentation, at every    *)
(* nesting depth.                                                          *)
C6_CompactLayout == LayoutAsClaimed(TRUE)

(* C6, as stated: the same with the length of the rendered (JSON) text of  *)
(* the list deciding, at most 60 characters between the brackets.          *)
C6_LayoutByRenderedLength == LayoutAsClaimed(FALSE)

C6_Witness ==
    /\ Len(output) = MaxEncodeCalls
    /\ o.t = "dict"
    /\ Len(o.kids) = 1
    /\ o.kids[1].kids[2].t = "list"
    /\ Len(PyStr(o.kids[1].kids[2])) - 2 = 60
    /\ Len(Lines(output[1])) = 3

(* C7: the floor plan handed to fill_ascii has at most GRID_HEIGHT lines   *)
(* of at most GRID_WIDTH characters, each an X or a space; fill_ascii      *)
(* never ends in the configuration error and every cell it fills lies      *)
(* within [0, width) x [0, height).                                        *)
C7_FloorPlanFits ==
    /\ pc # "ConfigError"
    /\ Len(grid_design) <= 18
    /\ \A y \in 1..Len(grid_design) :
          /\ Len(grid_design[y]) <= 21
          /\ \A x \in 1..Len(grid_design[y]) : grid_design[y][x] \in {"X", " "}
    /\ \A g \in 1..Len(board.grids) :
          \A k \in 1..Len(board.grids[g].electrodes) :
             /\ board.grids[g].electrodes[k].pos[1] \in 0..(GridWidth(board.grids[g]) - 1)
             /\ board.grids[g].electrodes[k].pos[2] \in 0..(GridHeight(board.grids[g]) - 1)

C7_Witness ==
    /\ pc = "add_peripheral"
    /\ i = 1
    /\ Len(board.grids[1].electrodes) = 106
    /\ GridElectrode(board.grids[1], <<GRID_WIDTH - 1, GRID_HEIGHT - 1>>) # 0

(* C8: the layout's peripherals are the board's peripherals, one entry     *)
(* each in insertion order; an entry's electrodes are the peripheral's     *)
(* electrodes, one entry each in the peripheral's order, with id, pin,     *)
(* polygon and origin; the layout's grids are the board's grids in order.  *)
C8_LayoutEntries ==
    pc \in {"write", "done"} =>
       /\ Len(layout.peripherals) = Len(board.peripherals)
       /\ \A p \in 1..Len(board.peripherals) :
             LET P == board.peripherals[p]
                 D == layout.peripherals[p]
             IN  /\ D.id = P.id
                 /\ D.origin = P.origin
                 /\ Len(D.electrodes) = Len(P.electrodes)
                 /\ \A k \in 1..Len(P.electrodes) :
                       LET e == heap[P.electrodes[k].electrode]
                           d == D.electrodes[k]
                       IN  /\ DOMAIN d = {"id", "pin", "polygon", "origin"}
                           /\ d.id = P.electrodes[k].id
                           /\ d.pin = pin_table[RefdesKey(e.refdes)]
                           /\ d.polygon = e.points
                           /\ d.origin = e.origin
       /\ Len(layout.grids) = Len(board.grids)
       /\ \A g \in 1..Len(board.grids) :
             /\ layout.grids[g].origin = board.grids[g].origin
             /\ layout.grids[g].pitch = board.grids[g].pitch
             /\ Len(layout.grids[g].pins) = GridHeight(board.grids[g])

C8_Witness ==
    /\ pc = "done"
    /\ Len(layout.peripherals) = 3
    /\ Len(layout.peripherals[3].electrodes) >= 2
    /\ layout.peripherals[3].electrodes[1].id = "A"
    /\ layout.peripherals[2].id # layout.peripherals[3].id

(* C9: the i-th reservoir crenellation pairs the i-th peripheral of the    *)
(* copy, placed for RESERVOIR_X_POSITIONS[i], with the grid cell           *)
(* (x_offset, RESERVOIR_Y_POSITION); the cell is occupied, so the lookup   *)
(* never fails, the cell below it is empty, and the reservoir's origin is  *)
(* the midpoint of the cell's lower edge: grid origin +                    *)
(* ((x_offset + 1/2) * pitch, (RESERVOIR_Y_POSITION + 1) * pitch).         *)
C9_ReservoirPairing ==
    LET claimedOrigin(m) ==
            PtAdd(board.grids[1].origin,
                  <<((2 * RESERVOIR_X_POSITIONS[m] + 1) * GRID_PITCH) \div 2,
                    (RESERVOIR_Y_POSITION + 1) * GRID_PITCH>>)
        cell(m) == <<RESERVOIR_X_POSITIONS[m], RESERVOIR_Y_POSITION>>
        below(m) == <<RESERVOIR_X_POSITIONS[m], RESERVOIR_Y_POSITION + 1>>
    IN  /\ pc = "KeyError" => net_table # <<>>
        /\ CallsOf("fill_ascii") # {} =>
              \A m \in 1..Len(RESERVOIR_X_POSITIONS) :
                 /\ grid_design[cell(m)[2] + 1][cell(m)[1] + 1] = "X"
                 /\ grid_design[below(m)[2] + 1][below(m)[1] + 1] = " "
                 /\ GridElectrode(board.grids[1], cell(m)) # 0
                 /\ GridElectrode(board.grids[1], below(m)) = 0
        /\ \A m \in 1..Len(board.peripherals) :
              LET e == heap[GridElectrode(board.grids[1], cell(m))]
                  square == Translate(e.points, GridFrame(board.grids[1], e))
              IN  /\ board.peripherals[m].origin = claimedOrigin(m)
                  /\ square[3][2] = square[4][2]
                  /\ square[3][2] > square[1][2]
                  /\ PtAdd(square[3], square[4])
                        = PtAdd(claimedOrigin(m), claimedOrigin(m))
        /\ \A k \in CallsOf("crenellate_electrodes") :
              LET m == Cardinality(CallsBefore("crenellate_electrodes", k)) + 1
              IN  /\ calls[k].a # 0
                  /\ calls[k].b # 0
                  /\ calls[k].a = GridElectrode(crenellated_board.grids[1], cell(m))
                  /\ calls[k].b = PeriphElectrode(crenellated_board.peripherals[m], "A")
                  /\ crenellated_board.peripherals[m].origin = claimedOrigin(m)

C9_Witness ==
    /\ pc = "reduce"
    /\ Cardinality(CallsOf("crenellate_electrodes")) = 3
    /\ Len(crenellated_board.peripherals) = 3

(* C10: the text encode returns differs from the standard encoder's text   *)
(* in whitespace only (so it is well-formed JSON and decodes to the same   *)
(* value), for every value including dicts whose keys are not strings;     *)
(* encode leaves the indentation level as it found it, and encoding the    *)
(* same value twice with one encoder gives the same text.                  *)
C10_WhitespaceOnly ==
    /\ \A m \in 1..Len(output) :
          StripWhitespace(output[m]) = StripWhitespace(StdEncode(o))
    /\ indentation_level = 0
    /\ \A m \in 1..Len(output) : output[m] = output[1]

====
